---- MODULE Spec2Model ----
(***************************************************************************)
(* State-machine model of the canvas interaction engine of                 *)
(* archodex-frontend (src/src/QueryGraph.tsx and the node / edge           *)
(* components it renders).                                                 *)
(*                                                                         *)
(* Numbers: pointer coordinates are integers; Math.sqrt and the running    *)
(* sum distanceMoved are kept in fixed point, in units of 1/Scale pixel,   *)
(* rounded down.  A sum of square roots of integers is an integer only if  *)
(* every term is, so the comparison with the 5 px threshold is decided the *)
(* same way as by the double arithmetic of the code for the paths drawn    *)
(* here.                                                                   *)
(***************************************************************************)
EXTENDS Integers, Sequences, FiniteSets, TLC

VARIABLES
    \* ---- QueryGraph.tsx module scope (gesture tracking)
    lastMouseCoords,   \* let lastMouseCoords: {x, y} | undefined
    distanceMoved,     \* let distanceMoved = 0
    \* ---- what the last dragClickHandler call was given and did
    gev,               \* the event it was called with, and the canvas that called
    click,             \* the synthetic click it dispatched, if any
    compared,          \* distanceMoved as compared with the threshold, -1 if none
    path               \* positions reported from the most recent mousedown on,
                       \* up to the mouseup that ended its gesture

gestureVars == <<lastMouseCoords, distanceMoved, gev, click, compared, path>>

VARIABLES
    \* ---- Inner: props, state and memo of one mounted canvas (hover)
    edges,             \* prop edges: Record<string, Edge<ELKEdgeData>>
    eventChainLinks,   \* prop eventChainLinks: edge id -> Links
    hoveredEdges,      \* useState<Set<string>>
    edgesArray,        \* useMemo result, keyed by the key each value came from
    \* ---- history
    entered            \* edge ids whose most recent hover event was mouseenter

hoverVars == <<edges, eventChainLinks, hoveredEdges, edgesArray, entered>>

VARIABLES
    \* ---- Inner: mount, layout effect, selection bridge
    mounted,           \* Inner is mounted
    laidOut,           \* prop laidOut: LayoutState
    nodes,             \* prop nodes: Record<string, Node<ResourceNodeData>>
    layoutEffectDeps,  \* laidOut as of the last run of the layout effect
    \* ---- history of the current mount
    initialRenders,    \* InitialRenderCompleted actions dispatched
    relaidOut,         \* a node snapshot arrived after LaidOut
    changes,           \* the node changes handed to onNodesChange, in order
    emitted,           \* what onNodesChange captured and dispatched, in order
    threw              \* the last onNodesChange call raised

canvasVars ==
    <<mounted, laidOut, nodes, layoutEffectDeps, initialRenders, relaidOut,
      changes, emitted, threw>>

VARIABLES
    \* ---- ResourceNode: one rendered node and its environment tagging
    selected,          \* prop selected
    environments,      \* prop data.environments
    envTooltipOpen,    \* useState<string | undefined>
    addEnvPopoverOpen, \* useState(false)
    toasts,            \* the notifications created so far, by toast id
    calls,             \* the tag / untag calls issued so far, by call number
    reducerLog,        \* the actions dispatched to the reducer, in order
    telemetry,         \* what posthog was given, in order
    tagOp              \* the handler that ran last

taggingVars ==
    <<selected, environments, envTooltipOpen, addEnvPopoverOpen, toasts, calls,
      reducerLog, telemetry, tagOp>>

VARIABLES
    \* ---- ResourceNode: issue badge, collapse control, container class
    data,        \* prop data: numChildren, collapsed, resourceIssueIds
    pathname,    \* location.pathname, as its path segments
    className,   \* the container's height class as last rendered
    nodeOut,     \* what the handler that ran last sent, in order
    nodeOp       \* the handler that ran last

nodeVars == <<data, pathname, className, nodeOut, nodeOp>>

VARIABLES
    \* ---- ELKEdge: one rendered edge and its label
    label,       \* prop data.label
    section,     \* prop data.section
    rendered     \* what ELKEdge returned for them

labelVars == <<label, section, rendered>>

VARIABLES
    \* ---- Inner: the viewport and the zoom controls
    viewport,    \* prop viewport
    zoom,        \* useViewport().zoom, in units of 1 / Scale
    controls,    \* the disabled attributes of the zoom controls as rendered
    pending,     \* the viewport animations whose promise is not settled yet
    vpOut,       \* what the step that ran last sent or logged
    vpOp         \* the step that ran last

viewportVars == <<viewport, zoom, controls, pending, vpOut, vpOp>>

VARIABLES
    \* ---- Inner: onEdgesChange
    edgeChanges,  \* the edge changes handed to onEdgesChange so far
    edgeEmitted,  \* what onEdgesChange captured and dispatched, in order
    edgeThrew     \* the last onEdgesChange call raised a TypeError

edgeSelVars == <<edgeChanges, edgeEmitted, edgeThrew>>

VARIABLES
    \* ---- ResourcesTable
    resources,          \* prop resources, as the row ids of its entries
    selectedResources,  \* prop selectedResources, in the Set's order
    tableOut            \* the last onRowSelectionChange call: its new
                        \* row-selection value and what it sent, in order

tableVars == <<resources, selectedResources, tableOut>>

vars ==
    <<gestureVars, hoverVars, canvasVars, taggingVars, nodeVars, labelVars,
      viewportVars, edgeSelVars, tableVars>>

-----------------------------------------------------------------------------
(* Bounds *)

MaxPath == 4        \* pointer events of one gesture, the mousedown included
MaxChanges == 3     \* node changes handed to onNodesChange during one mount
MaxBatch == 2       \* node changes in one onNodesChange call
MaxCalls == 2       \* tagEnvironment / untagEnvironment calls issued
MaxChildren == 2    \* data.numChildren
MaxIssues == 2      \* length of data.resourceIssueIds
MaxPoints == 3      \* vertices of one edge section, both ends included
MaxPending == 1     \* viewport animations not settled yet
MaxLinks == 1       \* edge ids one Links entry names, preceding and following
NumCanvases == 2    \* QueryGraph instances mounted at once
Scale == 1000       \* fixed-point units per pixel

-----------------------------------------------------------------------------
(* GestureClassifier: dragClickHandler *)

CLICK_DISTANCE_THRESHOLD_PX == 5

Canvases == 1..NumCanvases

Positions ==
    { [x |-> 0, y |-> 0], [x |-> 3, y |-> 0], [x |-> 3, y |-> 3], [x |-> 3, y |-> 4] }

Undefined == [defined |-> FALSE, x |-> 0, y |-> 0]

Coords(px, py) == [defined |-> TRUE, x |-> px, y |-> py]

MouseTypes == {"mousedown", "mousemove", "mouseup"}

\* The argument of an OnMove callback: null for a programmatic move, else the
\* source event.
NullEvent == [isNull |-> TRUE, type |-> "null", clientX |-> 0, clientY |-> 0]

\* The mouse events, and one event of another type.
MouseEvents ==
    { [isNull |-> FALSE, type |-> t, clientX |-> p.x, clientY |-> p.y] :
        t \in MouseTypes, p \in Positions }
      \cup { [isNull |-> FALSE, type |-> "wheel", clientX |-> 0, clientY |-> 0] }

\* What document.elementFromPoint may return when the event is handled: an
\* element (TRUE) or null (FALSE).  Only a mouseup can come to ask.
HitTests(event) ==
    IF ~event.isNull /\ event.type = "mouseup" THEN BOOLEAN ELSE {FALSE}

NoClick == [dispatched |-> FALSE, clientX |-> 0, clientY |-> 0]

SquaredLengths ==
    { (p.x - q.x) * (p.x - q.x) + (p.y - q.y) * (p.y - q.y) : p, q \in Positions }

MaxSquare == CHOOSE m \in SquaredLengths : \A n \in SquaredLengths : n <= m

\* Math.sqrt on the squared lengths that occur, in fixed point.
SqrtTable ==
    [n \in 0..MaxSquare |->
        CHOOSE r \in 0..(6 * Scale) :
            r * r <= n * Scale * Scale /\ n * Scale * Scale < (r + 1) * (r + 1)]

\* lines 70-73: Math.sqrt(dx * dx + dy * dy)
Moved(last, event) ==
    LET dx == event.clientX - last.x
        dy == event.clientY - last.y
    IN  SqrtTable[dx * dx + dy * dy]

\* Mutant of IsClick: the boundary included.
IsClickInclusive(d) == d <= CLICK_DISTANCE_THRESHOLD_PX * Scale

\* line 77: distanceMoved < 5
IsClick(d) == d < CLICK_DISTANCE_THRESHOLD_PX * Scale

\* Mutant of DistanceOnMouseDown: the running sum survives a new mousedown.
DistanceOnMouseDownKept(d) == d

\* line 62: distanceMoved = 0
DistanceOnMouseDown(d) == 0

\* Mutant of CoordsOnMouseUp: the last position survives the mouseup.
CoordsOnMouseUpKept(c) == c

\* line 93: lastMouseCoords = undefined
CoordsOnMouseUp(c) == Undefined

\* lines 54-97.  element: what document.elementFromPoint returns at the
\* release position (TRUE an element, FALSE null).
dragClickHandler(canvas, event, element) ==
    /\ gev' = [canvas |-> canvas, event |-> event, element |-> element]
    /\ IF event.isNull
       THEN \* lines 55-57
            /\ click' = NoClick
            /\ compared' = -1
            /\ UNCHANGED <<lastMouseCoords, distanceMoved, path>>
       ELSE IF event.type = "mousedown"
       THEN \* lines 59-62
            /\ lastMouseCoords' = Coords(event.clientX, event.clientY)
            /\ distanceMoved' = DistanceOnMouseDown(distanceMoved)
            /\ click' = NoClick
            /\ compared' = -1
            /\ path' = << [x |-> event.clientX, y |-> event.clientY] >>
       ELSE IF event.type \in {"mousemove", "mouseup"}
       THEN IF ~lastMouseCoords.defined
            THEN \* lines 66-68
                 /\ click' = NoClick
                 /\ compared' = -1
                 /\ UNCHANGED <<lastMouseCoords, distanceMoved, path>>
            ELSE LET d == distanceMoved + Moved(lastMouseCoords, event)
                     here == Coords(event.clientX, event.clientY)
                 IN  IF event.type = "mouseup"
                     THEN \* lines 76-95
                          /\ compared' = d
                          /\ click' =
                                IF IsClick(d) /\ element
                                THEN [dispatched |-> TRUE,
                                      clientX |-> event.clientX,
                                      clientY |-> event.clientY]
                                ELSE NoClick
                          /\ lastMouseCoords' = CoordsOnMouseUp(here)
                          /\ distanceMoved' = 0
                          /\ path' = Append(path,
                                        [x |-> event.clientX, y |-> event.clientY])
                     ELSE \* lines 70-74
                          /\ compared' = -1
                          /\ click' = NoClick
                          /\ lastMouseCoords' = here
                          /\ distanceMoved' = d
                          /\ path' = Append(path,
                                        [x |-> event.clientX, y |-> event.clientY])
       ELSE \* any other event type falls through both branches
            /\ click' = NoClick
            /\ compared' = -1
            /\ UNCHANGED <<lastMouseCoords, distanceMoved, path>>

\* A gesture of the model is at most MaxPath pointer events long.
WithinPath(event) ==
    \/ event.isNull
    \/ event.type \notin {"mousemove", "mouseup"}
    \/ ~lastMouseCoords.defined
    \/ Len(path) < MaxPath

\* line 255: onMoveStart={dragClickHandler}
OnMoveStart ==
    \E c \in Canvases, e \in MouseEvents \cup {NullEvent} : \E el \in HitTests(e) :
        /\ e.isNull \/ e.type \in {"mousedown", "wheel"}
        /\ WithinPath(e)
        /\ dragClickHandler(c, e, el)
        /\ UNCHANGED <<hoverVars, canvasVars, taggingVars, nodeVars, labelVars, viewportVars, edgeSelVars, tableVars>>

\* line 256: onMove={dragClickHandler}
OnMove ==
    \E c \in Canvases, e \in MouseEvents \cup {NullEvent} : \E el \in HitTests(e) :
        /\ e.isNull \/ e.type \in {"mousemove", "wheel"}
        /\ WithinPath(e)
        /\ dragClickHandler(c, e, el)
        /\ UNCHANGED <<hoverVars, canvasVars, taggingVars, nodeVars, labelVars, viewportVars, edgeSelVars, tableVars>>

\* line 257: onMoveEnd={dragClickHandler}
OnMoveEnd ==
    \E c \in Canvases, e \in MouseEvents \cup {NullEvent} : \E el \in HitTests(e) :
        /\ e.isNull \/ e.type \in {"mouseup", "wheel"}
        /\ WithinPath(e)
        /\ dragClickHandler(c, e, el)
        /\ UNCHANGED <<hoverVars, canvasVars, taggingVars, nodeVars, labelVars, viewportVars, edgeSelVars, tableVars>>

GestureInit ==
    /\ lastMouseCoords = Undefined
    /\ distanceMoved = 0
    /\ gev = [canvas |-> 1, event |-> NullEvent, element |-> FALSE]
    /\ click = NoClick
    /\ compared = -1
    /\ path = <<>>

GestureNext == OnMoveStart \/ OnMove \/ OnMoveEnd

-----------------------------------------------------------------------------
(* GestureClassifier: properties *)

Origin == [x |-> 0, y |-> 0]

\* The last call was a mouseup that found lastMouseCoords set.
EndOfGesture == ~gev.event.isNull /\ gev.event.type = "mouseup" /\ compared >= 0

RECURSIVE PathLength(_)
PathLength(ps) ==
    IF Len(ps) < 2 THEN 0
    ELSE LET n == Len(ps)
             dx == ps[n].x - ps[n - 1].x
             dy == ps[n].y - ps[n - 1].y
         IN  PathLength(SubSeq(ps, 1, n - 1)) + SqrtTable[dx * dx + dy * dy]

\* C1: at the end of a gesture that had a start, a synthetic click is
\* dispatched at the release position if and only if the accumulated distance
\* is strictly below 5 px and hit-testing found an element; start@(0,0),
\* end@(3,4) (distance exactly 5) dispatches nothing, four events at (0,0)
\* dispatch one click at (0,0), and without an element nothing is dispatched.
C1_ClickIffShortAndHit ==
    /\ EndOfGesture =>
          /\ click.dispatched <=>
                (compared < CLICK_DISTANCE_THRESHOLD_PX * Scale /\ gev.element)
          /\ click.dispatched =>
                (click.clientX = gev.event.clientX /\ click.clientY = gev.event.clientY)
    /\ (EndOfGesture /\ path = << Origin, [x |-> 3, y |-> 4] >>) => ~click.dispatched
    /\ (EndOfGesture /\ path = << Origin, Origin, Origin, Origin >> /\ gev.element) =>
          click = [dispatched |-> TRUE, clientX |-> 0, clientY |-> 0]
    /\ ~EndOfGesture => click = NoClick

C1_Witness ==
    /\ EndOfGesture
    /\ path = << Origin, [x |-> 3, y |-> 4] >>
    /\ compared = CLICK_DISTANCE_THRESHOLD_PX * Scale
    /\ gev.element
    /\ ~click.dispatched

\* The gesture state a canvas' callbacks read and write (lines 255-257 hand
\* every canvas the one module-level handler over lines 52-53).
lastPositionOf(canvas) == lastMouseCoords

accumulatedDistanceOf(canvas) == distanceMoved

\* C2: the gesture state is one instance per mounted canvas: a pointer event
\* delivered by one canvas leaves every other canvas' lastPosition and
\* accumulatedDistance unchanged.
C2_PerCanvasState ==
    [][ \A b \in Canvases :
          gev'.canvas # b =>
            /\ lastPositionOf(b)' = lastPositionOf(b)
            /\ accumulatedDistanceOf(b)' = accumulatedDistanceOf(b) ]_gestureVars

\* C3: the distance compared with the threshold at the end of a gesture is
\* the length of the path through the positions reported since the most
\* recent mousedown (not the net displacement, and nothing from before that
\* mousedown); start@(0,0), move@(3,0), end@(0,0) compares 6 and dispatches
\* no click.
C3_ComparedIsPathLength ==
    /\ EndOfGesture => compared = PathLength(path)
    /\ (EndOfGesture /\ path = << Origin, [x |-> 3, y |-> 0], Origin >>) =>
          (compared = 6 * Scale /\ ~click.dispatched)
    /\ lastMouseCoords.defined => distanceMoved = PathLength(path)

C3_Witness ==
    /\ EndOfGesture
    /\ path = << Origin, [x |-> 3, y |-> 0], Origin >>
    /\ compared = 6 * Scale
    /\ gev.element

\* C4: every mouseup leaves lastMouseCoords unset and distanceMoved 0,
\* whether or not a click was dispatched; a mousemove or mouseup arriving
\* while lastMouseCoords is unset changes neither and dispatches no click.
C4_EndResetsAndStrayIgnored ==
    [][ LET e == gev'.event IN
        /\ (~e.isNull /\ e.type = "mouseup") =>
              (lastMouseCoords' = Undefined /\ distanceMoved' = 0)
        /\ (~e.isNull /\ e.type \in {"mousemove", "mouseup"}
               /\ ~lastMouseCoords.defined) =>
              /\ lastMouseCoords' = lastMouseCoords
              /\ distanceMoved' = distanceMoved
              /\ click' = NoClick ]_gestureVars

\* A stray mouseup after a gesture that ended with a click.
C4_Witness ==
    /\ ~gev.event.isNull
    /\ gev.event.type = "mouseup"
    /\ compared = -1
    /\ Len(path) > 1
    /\ lastMouseCoords = Undefined
    /\ distanceMoved = 0

-----------------------------------------------------------------------------
(* HighlightPropagator and HoverState: handleEdgeHover, edgesArray *)

EdgeIds == {"e1", "e2", "e3"}

EmptyMap == [k \in {} |-> TRUE]

Put(m, k, v) == [x \in DOMAIN m \cup {k} |-> IF x = k THEN v ELSE m[x]]

Drop(m, k) == [x \in DOMAIN m \ {k} |-> m[x]]

\* An edge object of a snapshot.  obj tells the objects of the edges prop
\* ("prop") from the ones the memo creates ("copy"); hasData is edge.data
\* being set, eventChainHovered is edge.data.eventChainHovered.
PropEdge(id) ==
    [id |-> id, obj |-> "prop", hasData |-> TRUE, eventChainHovered |-> FALSE]

\* Lists of distinct edge ids.
IdLists ==
    UNION { { q \in [1..n -> EdgeIds] : \A i, j \in 1..n : i # j => q[i] # q[j] } :
              n \in 0..Cardinality(EdgeIds) }

\* The Links entries that may stand under edge id owner.
LinksOf(owner) ==
    { [preceding |-> p, following |-> f] :
        <<p, f>> \in { pf \in IdLists \X IdLists :
                         /\ Len(pf[1]) + Len(pf[2]) <= MaxLinks
                         /\ \A i \in 1..Len(pf[1]) : pf[1][i] # owner
                         /\ \A i \in 1..Len(pf[2]) : pf[2][i] # owner } }

LinksTable == [owner \in EdgeIds |-> LinksOf(owner)]

\* Mutant of NewHovered: the last hovered edge replaces the others.
NewHoveredLastWins(prev, type, id) ==
    IF type = "mouseenter" THEN {id} ELSE {}

\* lines 124-132: the setHoveredEdges updater
NewHovered(prev, type, id) ==
    IF type = "mouseenter" THEN prev \cup {id} ELSE prev \ {id}

\* Mutant of EventChainEdgeIds: the preceding edges are left out.
EventChainEdgeIdsNoPreceding(edgeId, links) ==
    <<edgeId>> \o links.following

\* line 150
EventChainEdgeIds(edgeId, links) ==
    <<edgeId>> \o links.preceding \o links.following

\* line 158: { ...edge, data: { ...edge.data, eventChainHovered: true } }
HoveredCopy(edge) == [edge EXCEPT !.obj = "copy", !.eventChainHovered = TRUE]

\* lines 152-159
RECURSIVE MarkChain(_, _, _)
MarkChain(edgesWithHovered, E, ids) ==
    IF ids = <<>> THEN edgesWithHovered
    ELSE LET eventChainEdgeId == Head(ids) IN
         IF eventChainEdgeId \notin DOMAIN E \/ ~E[eventChainEdgeId].hasData
         THEN MarkChain(edgesWithHovered, E, Tail(ids))
         ELSE MarkChain(
                [edgesWithHovered EXCEPT ![eventChainEdgeId] = HoveredCopy(E[eventChainEdgeId])],
                E, Tail(ids))

\* lines 141-160.  Every write stores a value computed from E alone, so the
\* order in which the Set is walked does not show in the result.
RECURSIVE MarkHovered(_, _, _, _)
MarkHovered(edgesWithHovered, E, L, hovered) ==
    IF hovered = {} THEN edgesWithHovered
    ELSE LET edgeId == CHOOSE h \in hovered : TRUE IN
         IF edgeId \notin DOMAIN L
         THEN MarkHovered(edgesWithHovered, E, L, hovered \ {edgeId})
         ELSE MarkHovered(
                MarkChain(edgesWithHovered, E, EventChainEdgeIds(edgeId, L[edgeId])),
                E, L, hovered \ {edgeId})

\* Mutant of EdgesArray: no early return, every edge is rebuilt with its flag.
EdgesArrayRebuilt(E, L, hovered) ==
    LET marked == MarkHovered(E, E, L, hovered)
    IN  [k \in DOMAIN E |-> [marked[k] EXCEPT !.obj = "copy"]]

\* lines 135-163
EdgesArray(E, L, hovered) ==
    IF Cardinality(hovered) = 0
    THEN E
    ELSE MarkHovered(E, E, L, hovered)

\* lines 123-133 and the render that follows the state change
HandleEdgeHover ==
    \E type \in {"mouseenter", "mouseleave"}, id \in DOMAIN edges :
        /\ hoveredEdges' = NewHovered(hoveredEdges, type, id)
        /\ edgesArray' = EdgesArray(edges, eventChainLinks, hoveredEdges')
        /\ entered' = IF type = "mouseenter" THEN entered \cup {id} ELSE entered \ {id}
        /\ UNCHANGED <<edges, eventChainLinks>>
        /\ UNCHANGED <<gestureVars, canvasVars, taggingVars, nodeVars, labelVars, viewportVars, edgeSelVars, tableVars>>

\* line 99: a render with a new edges prop (one edge added or removed)
SupplyEdges ==
    \E id \in EdgeIds :
        /\ edges' = IF id \in DOMAIN edges THEN Drop(edges, id)
                    ELSE Put(edges, id, PropEdge(id))
        /\ edgesArray' = EdgesArray(edges', eventChainLinks, hoveredEdges)
        /\ UNCHANGED <<eventChainLinks, hoveredEdges, entered>>
        /\ UNCHANGED <<gestureVars, canvasVars, taggingVars, nodeVars, labelVars, viewportVars, edgeSelVars, tableVars>>

\* line 99: a render with a new eventChainLinks prop (one entry set or removed)
SupplyEventChainLinks ==
    \E id \in EdgeIds :
        /\ \/ id \in DOMAIN eventChainLinks
              /\ eventChainLinks' = Drop(eventChainLinks, id)
           \/ \E l \in LinksTable[id] : eventChainLinks' = Put(eventChainLinks, id, l)
        /\ edgesArray' = EdgesArray(edges, eventChainLinks', hoveredEdges)
        /\ UNCHANGED <<edges, hoveredEdges, entered>>
        /\ UNCHANGED <<gestureVars, canvasVars, taggingVars, nodeVars, labelVars, viewportVars, edgeSelVars, tableVars>>

HoverInit ==
    /\ edges = EmptyMap
    /\ eventChainLinks = EmptyMap
    /\ hoveredEdges = {}
    /\ edgesArray = EmptyMap
    /\ entered = {}

HoverNext == HandleEdgeHover \/ SupplyEdges \/ SupplyEventChainLinks

-----------------------------------------------------------------------------
(* HighlightPropagator and HoverState: properties *)

Range(q) == { q[i] : i \in 1..Len(q) }

Flagged(result) == { k \in DOMAIN result : result[k].eventChainHovered }

\* The hovered ids that have a chain-link entry.
HoveredOwners == { h \in hoveredEdges : h \in DOMAIN eventChainLinks }

C6_EmptyHoverIsIdentity ==
    hoveredEdges = {} => edgesArray = edges

C6_Witness ==
    /\ hoveredEdges = {}
    /\ DOMAIN edges = EdgeIds
    /\ DOMAIN eventChainLinks = EdgeIds
    /\ eventChainLinks["e1"].following = <<"e2">>
    /\ edgesArray = edges

\* What hovering h alone may flag.
Neighbourhood(h) ==
    IF h \in DOMAIN eventChainLinks
    THEN {h} \cup Range(eventChainLinks[h].preceding)
             \cup Range(eventChainLinks[h].following)
    ELSE {}

\* C7: the hovered set is the set of ids whose most recent hover event was
\* an enter, and the flagged edges are the union of the neighbourhoods of all
\* of them, not of the last one alone.
C7_HoveredIsEnteredUnion ==
    /\ hoveredEdges = entered
    /\ Flagged(edgesArray) =
          (UNION { Neighbourhood(h) : h \in entered }) \cap DOMAIN edges

C7_Witness ==
    /\ entered = {"e1", "e3"}
    /\ hoveredEdges = {"e1", "e3"}
    /\ DOMAIN edges = EdgeIds
    /\ Neighbourhood("e1") = {"e1"}
    /\ Neighbourhood("e3") = {"e3", "e2"}
    /\ Flagged(edgesArray) = EdgeIds

-----------------------------------------------------------------------------
(* GraphCanvas and SelectionBridge: the layout effect, onNodesChange *)

NodeIds == {"A", "B"}

\* data.id of the node under each key: a path of {type, id} segments.
ResourceIdOf(id) ==
    IF id = "A"
    THEN << [type |-> "Account", id |-> "a1"], [type |-> "Bucket", id |-> "b1"] >>
    ELSE << [type |-> "Account", id |-> "a1"] >>

PropNode(id) == [id |-> id, data |-> [id |-> ResourceIdOf(id)]]

\* lib/utils typeIdFromResourceId: the type of the terminal segment.
typeIdFromResourceId(resourceId) == resourceId[Len(resourceId)].type

\* NodeChange: a selection change, or one of the other kinds ("dimensions").
NodeChanges ==
    { [type |-> "select", id |-> i, selected |-> b] : i \in NodeIds, b \in BOOLEAN }
      \cup { [type |-> "dimensions", id |-> "A", selected |-> FALSE] }

Batches == UNION { [1..n -> NodeChanges] : n \in 1..MaxBatch }

Capture(name, type, n) ==
    [kind |-> "capture", name |-> name, arg |-> type, change |-> n]

Dispatch(action, resourceId, n) ==
    [kind |-> "dispatch", name |-> action, arg |-> resourceId, change |-> n]

\* Mutant of EmitFor: the action is dispatched before the event is captured.
EmitForDispatchFirst(change, N, n) ==
    IF change.selected
    THEN << Dispatch("SelectResource", change.id, n),
            Capture("graph_resource_selected",
                    typeIdFromResourceId(N[change.id].data.id), n) >>
    ELSE << Dispatch("DeselectResource", change.id, n),
            Capture("graph_resource_deselected",
                    typeIdFromResourceId(N[change.id].data.id), n) >>

\* lines 218-228, for a change whose id is a key of nodes.  n numbers the
\* change among those of the mount.
EmitFor(change, N, n) ==
    IF change.selected
    THEN << Capture("graph_resource_selected",
                    typeIdFromResourceId(N[change.id].data.id), n),
            Dispatch("SelectResource", change.id, n) >>
    ELSE << Capture("graph_resource_deselected",
                    typeIdFromResourceId(N[change.id].data.id), n),
            Dispatch("DeselectResource", change.id, n) >>

\* lines 216-230.  nodes[change.id] is undefined for an id that is no key of
\* nodes, and reading .data of it raises a TypeError before anything is
\* captured or dispatched for that change; the rest of the batch is not run.
RECURSIVE onNodesChange(_, _, _, _)
onNodesChange(nodeChanges, N, n, out) ==
    IF nodeChanges = <<>> THEN [emitted |-> out, threw |-> FALSE]
    ELSE LET change == Head(nodeChanges) IN
         IF change.type # "select"
         THEN onNodesChange(Tail(nodeChanges), N, n + 1, out)
         ELSE IF change.id \notin DOMAIN N
         THEN [emitted |-> out, threw |-> TRUE]
         ELSE onNodesChange(Tail(nodeChanges), N, n + 1, out \o EmitFor(change, N, n))

\* Mutant of DepsChanged: the effect has no dependency list.
DepsChangedAlways(prev, now) == TRUE

\* line 114: [laidOut, queryDataDispatch]; the dispatch function of the
\* context is the same one for the whole mount.
DepsChanged(prev, now) == prev # now

\* lines 110-114, as run by a render that ends with laidOut = now: the number
\* of InitialRenderCompleted actions dispatched so far, kept up to 2.
LayoutEffect(prev, now, count) ==
    IF DepsChanged(prev, now) /\ now = "Initial"
    THEN IF count < 2 THEN count + 1 ELSE count
    ELSE count

\* The reducer's LayoutState at mount.
InitialLayoutState == "Initial"

\* line 99: the first render of Inner
Mount ==
    /\ ~mounted
    /\ mounted' = TRUE
    /\ laidOut' = InitialLayoutState
    /\ initialRenders' = LayoutEffect("none", laidOut', 0)
    /\ layoutEffectDeps' = laidOut'
    /\ UNCHANGED <<nodes, relaidOut, changes, emitted, threw>>
    /\ UNCHANGED <<gestureVars, hoverVars, taggingVars, nodeVars, labelVars, viewportVars, edgeSelVars, tableVars>>

\* The reducer moves LayoutState from Initial to LaidOut, and Inner renders.
LayoutCompleted ==
    /\ mounted
    /\ laidOut = "Initial"
    /\ laidOut' = "LaidOut"
    /\ initialRenders' = LayoutEffect(layoutEffectDeps, laidOut', initialRenders)
    /\ layoutEffectDeps' = laidOut'
    /\ UNCHANGED <<mounted, nodes, relaidOut, changes, emitted, threw>>
    /\ UNCHANGED <<gestureVars, hoverVars, taggingVars, nodeVars, labelVars, viewportVars, edgeSelVars, tableVars>>

\* line 99: a render with a new nodes prop (one node added or removed), as
\* after a relayout
SupplyNodes ==
    \E id \in NodeIds :
        /\ mounted
        /\ nodes' = IF id \in DOMAIN nodes THEN Drop(nodes, id)
                    ELSE Put(nodes, id, PropNode(id))
        /\ initialRenders' = LayoutEffect(layoutEffectDeps, laidOut, initialRenders)
        /\ layoutEffectDeps' = laidOut
        /\ relaidOut' = (relaidOut \/ laidOut = "LaidOut")
        /\ UNCHANGED <<mounted, laidOut, changes, emitted, threw>>
        /\ UNCHANGED <<gestureVars, hoverVars, taggingVars, nodeVars, labelVars, viewportVars, edgeSelVars, tableVars>>

\* lines 216-230: React Flow hands a batch of node changes to onNodesChange
OnNodesChange ==
    \E nodeChanges \in Batches :
        /\ mounted
        /\ Len(changes) + Len(nodeChanges) <= MaxChanges
        /\ LET r == onNodesChange(nodeChanges, nodes, Len(changes) + 1, <<>>)
           IN  /\ emitted' = emitted \o r.emitted
               /\ threw' = r.threw
        /\ changes' = changes \o nodeChanges
        /\ UNCHANGED <<mounted, laidOut, nodes, layoutEffectDeps, initialRenders,
                       relaidOut>>
        /\ UNCHANGED <<gestureVars, hoverVars, taggingVars, nodeVars, labelVars, viewportVars, edgeSelVars, tableVars>>

Unmount ==
    /\ mounted
    /\ mounted' = FALSE
    /\ laidOut' = InitialLayoutState
    /\ nodes' = EmptyMap
    /\ layoutEffectDeps' = "none"
    /\ initialRenders' = 0
    /\ relaidOut' = FALSE
    /\ changes' = <<>>
    /\ emitted' = <<>>
    /\ threw' = FALSE
    /\ UNCHANGED <<gestureVars, hoverVars, taggingVars, nodeVars, labelVars, viewportVars, edgeSelVars, tableVars>>

CanvasInit ==
    /\ mounted = FALSE
    /\ laidOut = InitialLayoutState
    /\ nodes = EmptyMap
    /\ layoutEffectDeps = "none"
    /\ initialRenders = 0
    /\ relaidOut = FALSE
    /\ changes = <<>>
    /\ emitted = <<>>
    /\ threw = FALSE

CanvasNext == Mount \/ LayoutCompleted \/ SupplyNodes \/ OnNodesChange \/ Unmount

-----------------------------------------------------------------------------
(* GraphCanvas and SelectionBridge: properties *)

\* C8: within one mount InitialRenderCompleted is never dispatched a second
\* time, whatever renders, snapshot updates and relayouts follow, and it has
\* been dispatched once LaidOut is reached.
C8_InitialRenderCompletedOnce ==
    /\ initialRenders <= 1
    /\ (mounted /\ laidOut = "LaidOut") => initialRenders = 1

\* LaidOut, and node snapshots of a later relayout have been rendered.
C8_Witness ==
    /\ mounted
    /\ laidOut = "LaidOut"
    /\ relaidOut
    /\ DOMAIN nodes = NodeIds
    /\ initialRenders = 1

RECURSIVE ExpectedActions(_)
ExpectedActions(cs) ==
    IF cs = <<>> THEN <<>>
    ELSE LET c == Head(cs) IN
         (IF c.type = "select"
          THEN << <<IF c.selected THEN "SelectResource" ELSE "DeselectResource", c.id>> >>
          ELSE <<>>)
         \o ExpectedActions(Tail(cs))

RECURSIVE DispatchedActions(_)
DispatchedActions(es) ==
    IF es = <<>> THEN <<>>
    ELSE (IF Head(es).kind = "dispatch"
          THEN << <<Head(es).name, Head(es).arg>> >>
          ELSE <<>>)
         \o DispatchedActions(Tail(es))

\* C9: for any sequence of change batches the resource actions dispatched
\* are exactly one per selection change, in order, SelectResource(id) when
\* selected and DeselectResource(id) when not, and nothing for the other
\* changes.
C9_OneActionPerSelectionChange ==
    DispatchedActions(emitted) = ExpectedActions(changes)

\* The capture call made for selection change number n with the event name
\* and the terminal type that belong to it.
IsTelemetryOf(e, d) ==
    /\ e.kind = "capture"
    /\ e.change = d.change
    /\ e.name = (IF d.name = "SelectResource" THEN "graph_resource_selected"
                 ELSE "graph_resource_deselected")
    /\ e.arg = typeIdFromResourceId(ResourceIdOf(d.arg))

\* C10 as stated: for each selection change the action is emitted first and
\* its telemetry event after it.
C10_ActionThenTelemetry ==
    \A i \in 1..Len(emitted) :
        emitted[i].kind = "dispatch" =>
            /\ \E j \in (i + 1)..Len(emitted) : IsTelemetryOf(emitted[j], emitted[i])
            /\ \A j \in 1..(i - 1) : ~IsTelemetryOf(emitted[j], emitted[i])

\* C10 as amended: for each selection change for which an action is emitted,
\* the telemetry event carrying the resource's terminal type for that change
\* is emitted first and the action (SelectResource(id) or
\* DeselectResource(id)) right after it.
C10_TelemetryThenAction ==
    /\ \A i \in 1..Len(emitted) :
          emitted[i].kind = "dispatch" =>
              /\ i > 1
              /\ IsTelemetryOf(emitted[i - 1], emitted[i])
              /\ \A j \in (i + 1)..Len(emitted) : ~IsTelemetryOf(emitted[j], emitted[i])
    /\ \A i \in 1..Len(emitted) :
          emitted[i].kind = "capture" =>
              /\ i < Len(emitted)
              /\ emitted[i + 1].kind = "dispatch"
              /\ emitted[i + 1].change = emitted[i].change

\* A is selected in one batch and deselected in the next.
C10_Witness ==
    /\ changes = << [type |-> "select", id |-> "A", selected |-> TRUE],
                    [type |-> "select", id |-> "A", selected |-> FALSE] >>
    /\ emitted = << Capture("graph_resource_selected", "Bucket", 1),
                    Dispatch("SelectResource", "A", 1),
                    Capture("graph_resource_deselected", "Bucket", 2),
                    Dispatch("DeselectResource", "A", 2) >>

-----------------------------------------------------------------------------
(* ResourceNode: tagEnvironment, untagEnvironment, the environment badges *)

\* data.id of the rendered node.
NodeResourceId == ResourceIdOf("A")

NoValue == "undefined"

\* ResourceEnvironmentData: inheritedFrom is a ResourceId or undefined.
OwnTag == [name |-> "prod", inherited |-> FALSE, inheritedFrom |-> <<>>]

InheritedTag ==
    [name |-> "dev", inherited |-> TRUE,
     inheritedFrom |-> << [type |-> "Account", id |-> "a1"] >>]

EnvironmentLists == { <<>>, <<OwnTag>>, <<InheritedTag>>, <<OwnTag, InheritedTag>> }

EnvNames == {"prod", "dev"}

\* callback(errorMessage?: string): undefined, or the message of a failure.
ErrorMessages == {NoValue, "network error"}

\* hooks/use-toast toast(): one more notification, open, under the next id.
\* by and phase tell which call created it and when.
Toast(ts, props, by, phase) ==
    Put(ts, Cardinality(DOMAIN ts) + 1,
        [title |-> props.title, variant |-> props.variant,
         duration |-> props.duration, description |-> props.description,
         open |-> TRUE, by |-> by, phase |-> phase])

\* hooks/use-toast dismiss() of the handle toast() returned.
Dismiss(ts, id) == [ts EXCEPT ![id].open = FALSE]

\* lines 206, 237
ProgressToast ==
    [title |-> "Updating environments for resource...", variant |-> "default",
     duration |-> "Infinity", description |-> NoValue]

\* lines 217, 248
SuccessToast ==
    [title |-> "Environments updated for resource", variant |-> "default",
     duration |-> "default", description |-> NoValue]

\* lines 220-225, 251-256
FailureToast(errorMessage) ==
    [title |-> "Failed to update environments for resource",
     variant |-> "destructive", duration |-> "Infinity",
     description |-> errorMessage]

\* lines 204-212, 235-243: the toast, then the dispatch.  kind is
\* "TagEnvironment" or "UntagEnvironment".
StartCall(kind, envName) ==
    LET c == Cardinality(DOMAIN calls) + 1
        t == Cardinality(DOMAIN toasts) + 1
    IN  /\ toasts' = Toast(toasts, ProgressToast, c, "start")
        /\ calls' = Put(calls, c,
                        [kind |-> kind, resourceId |-> NodeResourceId,
                         environment |-> envName, toast |-> t,
                         done |-> FALSE, errorMessage |-> NoValue])
        /\ reducerLog' = Append(reducerLog,
                                [action |-> kind, resourceId |-> NodeResourceId,
                                 environment |-> envName, call |-> c])

\* Mutant of CallbackEffects: the success branch runs whatever the outcome.
CallbackEffectsAlsoSuccess(c, errorMessage, ts, tel) ==
    LET k == calls[c].kind
        ok == [ts |-> Toast(ts, SuccessToast, c, "done"),
               tel |-> Append(tel,
                   [method |-> "capture",
                    name |-> (IF k = "TagEnvironment"
                              THEN "resource_tagged_with_environment"
                              ELSE "resource_untagged_from_environment"),
                    arg |-> typeIdFromResourceId(calls[c].resourceId),
                    call |-> c])]
    IN  IF errorMessage = NoValue THEN ok
        ELSE [ts |-> Toast(ok.ts, FailureToast(errorMessage), c, "done"),
              tel |-> Append(ok.tel,
                  [method |-> "captureException",
                   name |-> (IF k = "TagEnvironment"
                             THEN "Failed to tag resource with environment: "
                             ELSE "Failed to untag resource from environment: "),
                   arg |-> errorMessage, call |-> c])]

\* lines 216-228, 247-259: what the callback does after the dismiss.
CallbackEffects(c, errorMessage, ts, tel) ==
    LET k == calls[c].kind IN
    IF errorMessage = NoValue
    THEN [ts |-> Toast(ts, SuccessToast, c, "done"),
          tel |-> Append(tel,
              [method |-> "capture",
               name |-> (IF k = "TagEnvironment"
                         THEN "resource_tagged_with_environment"
                         ELSE "resource_untagged_from_environment"),
               arg |-> typeIdFromResourceId(calls[c].resourceId),
               call |-> c])]
    ELSE [ts |-> Toast(ts, FailureToast(errorMessage), c, "done"),
          tel |-> Append(tel,
              [method |-> "captureException",
               name |-> (IF k = "TagEnvironment"
                         THEN "Failed to tag resource with environment: "
                         ELSE "Failed to untag resource from environment: "),
               arg |-> errorMessage, call |-> c])]

\* Mutant of ToastOfCall: the handle is the one of the call issued last.
ToastOfLatestCall(c) == calls[Cardinality(DOMAIN calls)].toast

\* lines 206, 214 and 237, 245: taggingToast / untaggingToast is a const of
\* the call, and the callback closes over it.
ToastOfCall(c) == calls[c].toast

\* lines 213-229, 244-260: the reducer calls the callback of a call
Callback ==
    \E c \in DOMAIN calls, errorMessage \in ErrorMessages :
        /\ ~calls[c].done
        /\ LET r == CallbackEffects(c, errorMessage,
                                    Dismiss(toasts, ToastOfCall(c)), telemetry)
           IN  /\ toasts' = r.ts
               /\ telemetry' = r.tel
        /\ calls' = [calls EXCEPT ![c].done = TRUE, ![c].errorMessage = errorMessage]
        /\ tagOp' = [kind |-> "callback", call |-> c, name |-> NoValue]
        /\ UNCHANGED <<selected, environments, envTooltipOpen, addEnvPopoverOpen,
                       reducerLog>>
        /\ UNCHANGED <<gestureVars, hoverVars, canvasVars, nodeVars, labelVars, viewportVars, edgeSelVars, tableVars>>

\* Mutant of MayUntag: every badge untags.
MayUntagAny(env) == TRUE

\* line 318: env.inheritedFrom === undefined
MayUntag(env) == ~env.inherited

\* lines 316-322: a click on the badge of an environment
BadgeClick ==
    \E i \in 1..Len(environments) :
        LET env == environments[i] IN
        /\ envTooltipOpen' = IF envTooltipOpen = env.name THEN NoValue ELSE env.name
        /\ IF MayUntag(env)
           THEN /\ Cardinality(DOMAIN calls) < MaxCalls
                /\ StartCall("UntagEnvironment", env.name)
           ELSE UNCHANGED <<toasts, calls, reducerLog>>
        /\ tagOp' = [kind |-> "badge", call |-> i, name |-> env.name]
        /\ UNCHANGED <<selected, environments, addEnvPopoverOpen, telemetry>>
        /\ UNCHANGED <<gestureVars, hoverVars, canvasVars, nodeVars, labelVars, viewportVars, edgeSelVars, tableVars>>

\* lines 323-325
BadgeMouseLeave ==
    /\ Len(environments) > 0
    /\ envTooltipOpen' = NoValue
    /\ tagOp' = [kind |-> "leave", call |-> 0, name |-> NoValue]
    /\ UNCHANGED <<selected, environments, addEnvPopoverOpen, toasts, calls,
                   reducerLog, telemetry>>
    /\ UNCHANGED <<gestureVars, hoverVars, canvasVars, nodeVars, labelVars, viewportVars, edgeSelVars, tableVars>>

\* lines 171, 191-198: while the node is selected the tutorial holds
\* setAddEnvPopoverOpen and opens or closes the add-environment dialog with it
OpenTagEnvironmentDialog ==
    \E open \in BOOLEAN :
        /\ selected
        /\ addEnvPopoverOpen' = open
        /\ tagOp' = [kind |-> "dialog", call |-> 0, name |-> NoValue]
        /\ UNCHANGED <<selected, environments, envTooltipOpen, toasts, calls,
                       reducerLog, telemetry>>
        /\ UNCHANGED <<gestureVars, hoverVars, canvasVars, nodeVars, labelVars, viewportVars, edgeSelVars, tableVars>>

\* lines 390-393: an environment name is picked in the dialog
CommandItemSelect ==
    \E value \in EnvNames :
        /\ selected
        /\ addEnvPopoverOpen
        /\ Cardinality(DOMAIN calls) < MaxCalls
        /\ StartCall("TagEnvironment", value)
        /\ addEnvPopoverOpen' = FALSE
        /\ tagOp' = [kind |-> "select", call |-> 0, name |-> value]
        /\ UNCHANGED <<selected, environments, envTooltipOpen, telemetry>>
        /\ UNCHANGED <<gestureVars, hoverVars, canvasVars, nodeVars, labelVars, viewportVars, edgeSelVars, tableVars>>

\* line 163: a render with new props; lines 200-202 close the dialog when
\* selected changes.
SupplyNodeProps ==
    \E sel \in BOOLEAN, envs \in EnvironmentLists :
        /\ <<sel, envs>> # <<selected, environments>>
        /\ selected' = sel
        /\ environments' = envs
        /\ addEnvPopoverOpen' = IF sel # selected THEN FALSE ELSE addEnvPopoverOpen
        /\ tagOp' = [kind |-> "render", call |-> 0, name |-> NoValue]
        /\ UNCHANGED <<envTooltipOpen, toasts, calls, reducerLog, telemetry>>
        /\ UNCHANGED <<gestureVars, hoverVars, canvasVars, nodeVars, labelVars, viewportVars, edgeSelVars, tableVars>>

TaggingInit ==
    /\ selected = FALSE
    /\ environments = <<>>
    /\ envTooltipOpen = NoValue
    /\ addEnvPopoverOpen = FALSE
    /\ toasts = EmptyMap
    /\ calls = EmptyMap
    /\ reducerLog = <<>>
    /\ telemetry = <<>>
    /\ tagOp = [kind |-> "render", call |-> 0, name |-> NoValue]

TaggingNext ==
    \/ Callback
    \/ BadgeClick
    \/ BadgeMouseLeave
    \/ OpenTagEnvironmentDialog
    \/ CommandItemSelect
    \/ SupplyNodeProps

-----------------------------------------------------------------------------
(* ResourceNode tagging: properties *)

ToastsBy(c, phase) == { t \in DOMAIN toasts : toasts[t].by = c /\ toasts[t].phase = phase }

TelemetryBy(c) == { i \in 1..Len(telemetry) : telemetry[i].call = c }

\* C11: every completed tagEnvironment / untagEnvironment call has exactly
\* one outcome: without an error message one transient confirmation and one
\* success telemetry event, with one a persistent error notification carrying
\* the message and one failure report; and no call is issued again by a
\* completion.
C11_OneOutcomePerCall ==
    /\ \A c \in DOMAIN calls :
          IF ~calls[c].done
          THEN ToastsBy(c, "done") = {} /\ TelemetryBy(c) = {}
          ELSE /\ Cardinality(ToastsBy(c, "done")) = 1
               /\ Cardinality(TelemetryBy(c)) = 1
               /\ LET t == toasts[CHOOSE x \in ToastsBy(c, "done") : TRUE]
                      e == telemetry[CHOOSE i \in TelemetryBy(c) : TRUE]
                  IN  IF calls[c].errorMessage = NoValue
                      THEN /\ t.variant = "default"
                           /\ t.duration = "default"
                           /\ t.open
                           /\ e.method = "capture"
                      ELSE /\ t.variant = "destructive"
                           /\ t.duration = "Infinity"
                           /\ t.description = calls[c].errorMessage
                           /\ t.open
                           /\ e.method = "captureException"
                           /\ e.arg = calls[c].errorMessage
    /\ Len(reducerLog) = Cardinality(DOMAIN calls)
    /\ \A i \in 1..Len(reducerLog) : reducerLog[i].call = i

\* One call failed and another succeeded.
C11_Witness ==
    /\ DOMAIN calls = {1, 2}
    /\ calls[1].done /\ calls[1].errorMessage = "network error"
    /\ calls[2].done /\ calls[2].errorMessage = NoValue
    /\ calls[1].kind = "UntagEnvironment"
    /\ calls[2].kind = "TagEnvironment"

\* C17: a click on the badge of a tag that has inheritedFrom dispatches
\* nothing and creates no notification; a click on the badge of a tag without
\* inheritedFrom dispatches exactly one UntagEnvironment(resourceId, name).
C17_InheritedTagIsReadOnly ==
    [][tagOp'.kind = "badge" =>
         LET env == environments[tagOp'.call] IN
         IF env.inherited
         THEN /\ reducerLog' = reducerLog
              /\ toasts' = toasts
              /\ calls' = calls
         ELSE /\ Len(reducerLog') = Len(reducerLog) + 1
              /\ SubSeq(reducerLog', 1, Len(reducerLog)) = reducerLog
              /\ LET a == reducerLog'[Len(reducerLog')]
                 IN  /\ a.action = "UntagEnvironment"
                     /\ a.resourceId = NodeResourceId
                     /\ a.environment = env.name
              /\ Cardinality(DOMAIN toasts') = Cardinality(DOMAIN toasts) + 1
    ]_vars

\* The inherited badge was clicked after the node's own badge was.
C17_Witness ==
    /\ tagOp.kind = "badge"
    /\ tagOp.name = InheritedTag.name
    /\ envTooltipOpen = InheritedTag.name
    /\ Len(reducerLog) = 1
    /\ reducerLog[1].action = "UntagEnvironment"
    /\ reducerLog[1].environment = OwnTag.name

-----------------------------------------------------------------------------
(* ResourceNode: selectResourceIssues, the collapse control, containerClassName *)

IssueIds == {"i1", "i2"}

IssueIdLists == UNION { [1..n -> IssueIds] : n \in 0..MaxIssues }

\* ResourceNodeData, the fields these handlers read
NodeData ==
    [id : {NodeResourceId}, numChildren : 0..MaxChildren, collapsed : BOOLEAN,
     resourceIssueIds : IssueIdLists]

\* location.pathname as the list of its segments: the events view, the
\* issues view, and the view above both.
Pathnames == { <<"a1", "events">>, <<"a1", "issues">>, <<"a1">> }

\* String.prototype.endsWith('/' + segment)
EndsWith(loc, segment) == Len(loc) > 0 /\ loc[Len(loc)] = segment

\* Mutant of Navigation: the second branch is taken on the issues view too.
NavigationUnlessEvents(loc) ==
    IF EndsWith(loc, "events")
    THEN << [kind |-> "navigate", name |-> "../issues", arg |-> "replace"] >>
    ELSE << [kind |-> "navigate", name |-> "./issues", arg |-> "replace"] >>

\* lines 178-182
Navigation(loc) ==
    IF EndsWith(loc, "events")
    THEN << [kind |-> "navigate", name |-> "../issues", arg |-> "replace"] >>
    ELSE IF ~EndsWith(loc, "issues")
         THEN << [kind |-> "navigate", name |-> "./issues", arg |-> "replace"] >>
         ELSE <<>>

\* lines 184-186
SelectIssues(issueIds) ==
    [i \in 1..Len(issueIds) |->
        [kind |-> "dispatch", name |-> "SelectIssue", arg |-> issueIds[i]]]

\* lines 174-189
selectResourceIssues(d, loc) ==
    << [kind |-> "capture", name |-> "resource_node_issue_badge_clicked",
        arg |-> typeIdFromResourceId(d.id)] >>
    \o Navigation(loc)
    \o SelectIssues(d.resourceIssueIds)

\* Mutant of isOpenContainer: the collapsed flag is not looked at.
isOpenContainerIgnoringCollapsed(d) == d.numChildren > 0

\* line 45
isOpenContainer(d) == d.numChildren > 0 /\ ~d.collapsed

\* lines 44-50: the height class of the container
containerClassName(d) ==
    IF isOpenContainer(d) THEN "h-[var(--resource-title-height)]" ELSE "h-full"

\* lines 416-424: a click on the issue badge, rendered when the node has issues
IssueBadgeClick ==
    /\ Len(data.resourceIssueIds) > 0
    /\ nodeOut' = selectResourceIssues(data, pathname)
    /\ nodeOp' = [kind |-> "issues", pathname |-> pathname]
    /\ UNCHANGED <<data, pathname, className>>
    /\ UNCHANGED <<gestureVars, hoverVars, canvasVars, taggingVars, labelVars, viewportVars, edgeSelVars, tableVars>>

\* lines 464-475: a click on the chevron, rendered when the node has children
ChevronClick ==
    /\ data.numChildren > 0
    /\ nodeOut' = << [kind |-> "dispatch", name |-> "ToggleNodeCollapsed", arg |-> "A"] >>
    /\ nodeOp' = [kind |-> "chevron", pathname |-> pathname]
    /\ UNCHANGED <<data, pathname, className>>
    /\ UNCHANGED <<gestureVars, hoverVars, canvasVars, taggingVars, labelVars, viewportVars, edgeSelVars, tableVars>>

\* line 453: the node is rendered with the data it is supplied with
SupplyNodeData ==
    \E d \in NodeData :
        /\ d # data
        /\ data' = d
        /\ className' = containerClassName(d)
        /\ nodeOut' = <<>>
        /\ nodeOp' = [kind |-> "render", pathname |-> pathname]
        /\ UNCHANGED pathname
        /\ UNCHANGED <<gestureVars, hoverVars, canvasVars, taggingVars, labelVars, viewportVars, edgeSelVars, tableVars>>

\* The router moves the host to another view.
LocationChange ==
    \E loc \in Pathnames :
        /\ loc # pathname
        /\ pathname' = loc
        /\ nodeOut' = <<>>
        /\ nodeOp' = [kind |-> "location", pathname |-> loc]
        /\ UNCHANGED <<data, className>>
        /\ UNCHANGED <<gestureVars, hoverVars, canvasVars, taggingVars, labelVars, viewportVars, edgeSelVars, tableVars>>

NodeInit ==
    /\ data = [id |-> NodeResourceId, numChildren |-> 0, collapsed |-> FALSE,
               resourceIssueIds |-> <<>>]
    /\ pathname = <<"a1">>
    /\ className = containerClassName(data)
    /\ nodeOut = <<>>
    /\ nodeOp = [kind |-> "render", pathname |-> <<"a1">>]

NodeNext ==
    \/ IssueBadgeClick
    \/ ChevronClick
    \/ SupplyNodeData
    \/ LocationChange

-----------------------------------------------------------------------------
(* ResourceNode view: properties *)

Sent(kind) == SelectSeq(nodeOut, LAMBDA e : e.kind = kind)

\* C12: a click on the issue badge dispatches one SelectIssue per entry of
\* data.resourceIssueIds, in the order of the list, and nothing else; it
\* asks for a navigation exactly when the pathname is not the issues view.
C12_OneSelectIssuePerEntry ==
    nodeOp.kind = "issues" =>
        /\ Len(Sent("dispatch")) = Len(data.resourceIssueIds)
        /\ \A i \in 1..Len(data.resourceIssueIds) :
              /\ Sent("dispatch")[i].name = "SelectIssue"
              /\ Sent("dispatch")[i].arg = data.resourceIssueIds[i]
        /\ Len(Sent("navigate")) =
              (IF nodeOp.pathname[Len(nodeOp.pathname)] = "issues" THEN 0 ELSE 1)

\* The badge of a node with two different issues was clicked on the issues
\* view.
C12_Witness ==
    /\ nodeOp.kind = "issues"
    /\ nodeOp.pathname = <<"a1", "issues">>
    /\ data.resourceIssueIds = <<"i2", "i1">>
    /\ Len(nodeOut) = 3

\* The collapse action comes only from a node with children, and the
\* rendered height class is the one of the node's numChildren and collapsed.
ContainerMatchesData ==
    /\ nodeOp.kind = "chevron" =>
          /\ data.numChildren > 0
          /\ nodeOut = << [kind |-> "dispatch", name |-> "ToggleNodeCollapsed", arg |-> "A"] >>
    /\ \A e \in Range(nodeOut) : e.name = "ToggleNodeCollapsed" => data.numChildren > 0
    /\ className = (IF data.numChildren > 0 /\ ~data.collapsed
                    THEN "h-[var(--resource-title-height)]"
                    ELSE "h-full")

\* C18: ToggleNodeCollapsed is dispatched only for a node with children; the
\* container has the title-bar height exactly when the node has children and
\* is not collapsed, the full height otherwise; and a node with two children
\* supplied again with collapsed true after it was rendered with collapsed
\* false goes from the title-bar height to the full height.
C18_OpenContainerIffChildrenAndNotCollapsed ==
    /\ []ContainerMatchesData
    /\ [][(/\ data.numChildren = 2 /\ ~data.collapsed
           /\ data'.numChildren = 2 /\ data'.collapsed)
          => /\ className = "h-[var(--resource-title-height)]"
             /\ className' = "h-full"]_vars

\* The node with two children is rendered collapsed.
C18_Witness ==
    /\ data.numChildren = 2
    /\ data.collapsed
    /\ className = "h-full"
    /\ nodeOp.kind = "render"

-----------------------------------------------------------------------------
(* ELKEdge: the edge path and calculateClosestPathMidpoint *)

ISSUE_BADGE_SIZE == 26

\* A number | undefined field, and the value Infinity.
Num(v) == [kind |-> "number", v |-> v]

UndefinedNum == [kind |-> "undefined", v |-> 0]

Infinity == [kind |-> "Infinity", v |-> 0]

\* !value of a number | undefined: undefined and 0 are falsy.
Falsy(n) == n.kind = "undefined" \/ (n.kind = "number" /\ n.v = 0)

Abs(n) == IF n < 0 THEN -n ELSE n

\* The vertices ELK routes an edge through.
Vertices == [x : {0, 10}, y : {0, 10}]

VertexLists == UNION { [1..n -> Vertices] : n \in 2..MaxPoints }

NoSection == [defined |-> FALSE, points |-> <<>>]

Sections == {NoSection} \cup { [defined |-> TRUE, points |-> q] : q \in VertexLists }

\* data.label: each of x, y and width is a number or undefined.
Labels ==
    [x : {UndefinedNum, Num(0), Num(5), Num(10)},
     y : {UndefinedNum, Num(0), Num(5)},
     width : {UndefinedNum, Num(0), Num(5)}]

\* Mutant of Covers: the pair's ends are taken in either order.
CoversEitherWay(start, end, l) ==
    LET lo == IF start.x <= end.x THEN start.x ELSE end.x
        hi == IF start.x <= end.x THEN end.x ELSE start.x
    IN  \/ lo <= l.x.v /\ hi >= l.x.v
        \/ lo <= l.x.v + l.width.v /\ hi >= l.x.v + l.width.v

\* lines 100-103
Covers(start, end, l) ==
    \/ start.x <= l.x.v /\ end.x >= l.x.v
    \/ start.x <= l.x.v + l.width.v /\ end.x >= l.x.v + l.width.v

\* lines 104, 108: Math.abs(y - label.y) < Math.abs(closest - label.y)
Closer(y, closest, l) ==
    \/ closest.kind = "Infinity"
    \/ Abs(y - l.y.v) < Abs(closest.v - l.y.v)

\* lines 96-112: the loop from pair i on
RECURSIVE ClosestFrom(_, _, _, _)
ClosestFrom(i, closest, l, points) ==
    IF i > Len(points) - 1 THEN closest
    ELSE LET start == points[i]
             end == points[i + 1]
         IN  IF Covers(start, end, l)
             THEN LET c1 == IF Closer(start.y, closest, l) THEN Num(start.y) ELSE closest
                      c2 == IF Closer(end.y, c1, l) THEN Num(end.y) ELSE c1
                  IN  ClosestFrom(i + 1, c2, l, points)
             ELSE ClosestFrom(i + 1, closest, l, points)

\* lines 87-115
calculateClosestPathMidpoint(l, points) ==
    IF Falsy(l.x) \/ Falsy(l.y) \/ Falsy(l.width)
    THEN l.y
    ELSE ClosestFrom(1, Infinity, l, points)

\* lines 52-62: the path, its first vertex moved left by half a badge
EdgePath(points) ==
    [i \in 1..Len(points) |->
        IF i = 1 THEN [x |-> points[1].x - ISSUE_BADGE_SIZE \div 2, y |-> points[1].y]
        ELSE points[i]]

\* lines 40-82
ELKEdge(l, sec) ==
    IF ~sec.defined
    THEN [visible |-> FALSE, path |-> <<>>, x |-> UndefinedNum, y |-> UndefinedNum]
    ELSE [visible |-> TRUE, path |-> EdgePath(sec.points), x |-> l.x,
          y |-> calculateClosestPathMidpoint(l, sec.points)]

\* line 40: the edge is rendered with another label
SupplyLabel ==
    \E l \in Labels :
        /\ l # label
        /\ label' = l
        /\ rendered' = ELKEdge(l, section)
        /\ UNCHANGED section
        /\ UNCHANGED <<gestureVars, hoverVars, canvasVars, taggingVars, nodeVars, viewportVars, edgeSelVars, tableVars>>

\* line 40: the edge is rendered with another section, or with none
SupplySection ==
    \E sec \in Sections :
        /\ sec # section
        /\ section' = sec
        /\ rendered' = ELKEdge(label, sec)
        /\ UNCHANGED label
        /\ UNCHANGED <<gestureVars, hoverVars, canvasVars, taggingVars, nodeVars, viewportVars, edgeSelVars, tableVars>>

LabelInit ==
    /\ label = [x |-> UndefinedNum, y |-> UndefinedNum, width |-> UndefinedNum]
    /\ section = NoSection
    /\ rendered = ELKEdge(label, section)

LabelNext ==
    \/ SupplyLabel
    \/ SupplySection

-----------------------------------------------------------------------------
(* ELKEdge: properties *)

\* The pairs of the rendered section that cover the label.
CoveringPairs ==
    { i \in 1..(Len(section.points) - 1) :
        Covers(section.points[i], section.points[i + 1], label) }

\* The endpoint y values of the covering pairs, in the order of the scan.
RECURSIVE CandidatesFrom(_)
CandidatesFrom(i) ==
    IF i > Len(section.points) - 1 THEN <<>>
    ELSE (IF i \in CoveringPairs
          THEN <<section.points[i].y, section.points[i + 1].y>>
          ELSE <<>>) \o CandidatesFrom(i + 1)

\* The first candidate no other candidate is nearer to label.y than.
NearestCandidate ==
    LET c == CandidatesFrom(1)
        k == CHOOSE k \in 1..Len(c) :
                /\ \A j \in 1..Len(c) : Abs(c[k] - label.y.v) <= Abs(c[j] - label.y.v)
                /\ \A j \in 1..(k - 1) : Abs(c[j] - label.y.v) > Abs(c[k] - label.y.v)
    IN  Num(c[k])

AllPresent == label.x.kind = "number" /\ label.y.kind = "number" /\ label.width.kind = "number"

\* C13: the label's y is returned unchanged only when x, y or width is
\* missing; when all three are there, zero values included, the result is
\* the endpoint y of a covering pair nearest to label.y, the first on ties;
\* for the vertices (0,0), (10,0), (10,10) and the label x 10, width 0, y 5
\* it is 0.
C13_ZeroIsPresent ==
    /\ (section.defined /\ AllPresent /\ CoveringPairs # {})
          => rendered.y = NearestCandidate
    /\ (/\ section.defined
        /\ section.points = << [x |-> 0, y |-> 0], [x |-> 10, y |-> 0], [x |-> 10, y |-> 10] >>
        /\ label = [x |-> Num(10), y |-> Num(5), width |-> Num(0)])
          => rendered.y = Num(0)

\* C14: when no pair covers the label the label is placed at its own
\* label.y, and a y that is not finite is never the rendered position.
C14_NonFiniteNeverRendered ==
    rendered.visible =>
        /\ rendered.y.kind # "Infinity"
        /\ (~Falsy(label.x) /\ ~Falsy(label.y) /\ ~Falsy(label.width) /\ CoveringPairs = {})
              => rendered.y = label.y

\* C19: a pair covers the label whenever the x-range its two vertices span
\* contains label.x or label.x + label.width, whichever of the two vertices
\* comes first.
C19_CoverIndependentOfDirection ==
    (section.defined /\ AllPresent) =>
        \A i \in 1..(Len(section.points) - 1) :
            LET a == section.points[i]
                b == section.points[i + 1]
            IN  /\ Covers(a, b, label) = Covers(b, a, label)
                /\ CoversEitherWay(a, b, label) => Covers(a, b, label)

-----------------------------------------------------------------------------
(* Inner: setViewport on a new viewport, the zoom-in and zoom-out controls *)

\* lines 29-30, in units of 1 / Scale
MIN_ZOOM == Scale \div 10

MAX_ZOOM == Scale

\* The zoom of the viewport descriptors the application supplies.
ViewportZooms == {MIN_ZOOM, (MIN_ZOOM + MAX_ZOOM) \div 2, MAX_ZOOM}

Clamp(z) == IF z < MIN_ZOOM THEN MIN_ZOOM ELSE IF z > MAX_ZOOM THEN MAX_ZOOM ELSE z

\* useReactFlow().zoomIn / zoomOut: one step up or down, kept inside
\* [minZoom, maxZoom] (lines 258-259).
zoomIn(z) == Clamp((z * 12) \div 10)

zoomOut(z) == Clamp((z * 10) \div 12)

\* Mutant of ZoomInDisabled: the control stays enabled at the bound.
ZoomInDisabledAbove(z) == z > MAX_ZOOM

\* line 293
ZoomInDisabled(z) == z >= MAX_ZOOM

\* line 306
ZoomOutDisabled(z) == z <= MIN_ZOOM

\* lines 293, 306: the controls as rendered for a zoom
Controls(z) == [zoomIn |-> ZoomInDisabled(z), zoomOut |-> ZoomOutDisabled(z)]

\* lines 107, 287-289, 300-302: what becomes of a rejected promise.  zoomIn
\* and zoomOut have a catch that logs; setViewport is called with void and
\* without one.
OnRejected(by) ==
    IF by = "setViewport"
    THEN << [kind |-> "unhandledrejection", name |-> by] >>
    ELSE << [kind |-> "console.error", name |-> by] >>

\* lines 106-108: the effect runs for a viewport object it has not seen
SupplyViewport ==
    \E z \in ViewportZooms :
        /\ Len(pending) < MaxPending
        /\ viewport' = [zoom |-> z, obj |-> 1 - viewport.obj]
        /\ zoom' = z
        /\ controls' = Controls(z)
        /\ pending' = Append(pending, "setViewport")
        /\ vpOut' = <<>>
        /\ vpOp' = [kind |-> "setViewport", from |-> zoom]
        /\ UNCHANGED <<gestureVars, hoverVars, canvasVars, taggingVars, nodeVars, labelVars, edgeSelVars, tableVars>>

\* lines 285-290: a click on the zoom-in control
ZoomInClick ==
    /\ ~controls.zoomIn
    /\ Len(pending) < MaxPending
    /\ zoom' = zoomIn(zoom)
    /\ controls' = Controls(zoom')
    /\ pending' = Append(pending, "zoomIn")
    /\ vpOut' = << [kind |-> "capture", name |-> "graph_zoom_in"] >>
    /\ vpOp' = [kind |-> "zoomIn", from |-> zoom]
    /\ UNCHANGED viewport
    /\ UNCHANGED <<gestureVars, hoverVars, canvasVars, taggingVars, nodeVars, labelVars, edgeSelVars, tableVars>>

\* lines 298-303: a click on the zoom-out control
ZoomOutClick ==
    /\ ~controls.zoomOut
    /\ Len(pending) < MaxPending
    /\ zoom' = zoomOut(zoom)
    /\ controls' = Controls(zoom')
    /\ pending' = Append(pending, "zoomOut")
    /\ vpOut' = << [kind |-> "capture", name |-> "graph_zoom_out"] >>
    /\ vpOp' = [kind |-> "zoomOut", from |-> zoom]
    /\ UNCHANGED viewport
    /\ UNCHANGED <<gestureVars, hoverVars, canvasVars, taggingVars, nodeVars, labelVars, edgeSelVars, tableVars>>

RemoveAt(q, i) == [j \in 1..(Len(q) - 1) |-> IF j < i THEN q[j] ELSE q[j + 1]]

\* The promise of an animation is fulfilled.
AnimationResolved ==
    \E i \in 1..Len(pending) :
        /\ pending' = RemoveAt(pending, i)
        /\ vpOut' = <<>>
        /\ vpOp' = [kind |-> "resolved", from |-> zoom]
        /\ UNCHANGED <<viewport, zoom, controls>>
        /\ UNCHANGED <<gestureVars, hoverVars, canvasVars, taggingVars, nodeVars, labelVars, edgeSelVars, tableVars>>

\* The promise of an animation is rejected.
AnimationRejected ==
    \E i \in 1..Len(pending) :
        /\ pending' = RemoveAt(pending, i)
        /\ vpOut' = OnRejected(pending[i])
        /\ vpOp' = [kind |-> "rejected", from |-> zoom]
        /\ UNCHANGED <<viewport, zoom, controls>>
        /\ UNCHANGED <<gestureVars, hoverVars, canvasVars, taggingVars, nodeVars, labelVars, edgeSelVars, tableVars>>

\* The canvas as mounted: React Flow's own viewport has zoom 1, and the
\* effect of lines 106-108 has run for the first viewport.
ViewportInit ==
    /\ viewport = [zoom |-> MAX_ZOOM, obj |-> 0]
    /\ zoom = MAX_ZOOM
    /\ controls = Controls(MAX_ZOOM)
    /\ pending = <<"setViewport">>
    /\ vpOut = <<>>
    /\ vpOp = [kind |-> "setViewport", from |-> MAX_ZOOM]

ViewportNext ==
    \/ SupplyViewport
    \/ ZoomInClick
    \/ ZoomOutClick
    \/ AnimationResolved
    \/ AnimationRejected

-----------------------------------------------------------------------------
(* Inner viewport: properties *)

C16_RejectionsCaughtAndLogged ==
    vpOp.kind = "rejected" =>
        /\ Len(vpOut) = 1
        /\ vpOut[1].kind = "console.error"

-----------------------------------------------------------------------------
(* SelectionBridge: onEdgesChange *)

\* data.events[0] of the edge under each key: principal and resource are
\* ResourceIds.
FirstEventOf(id) ==
    [principal |-> ResourceIdOf("B"), type |-> "GetObject",
     resource |-> ResourceIdOf("A")]

\* EdgeChange: a selection change, or one of the other kinds ("remove").
EdgeChanges ==
    { [type |-> "select", id |-> i, selected |-> b] : i \in EdgeIds, b \in BOOLEAN }
      \cup { [type |-> "remove", id |-> "e1", selected |-> FALSE] }

EdgeBatches == UNION { [1..n -> EdgeChanges] : n \in 1..MaxBatch }

\* lines 237-241, 244-248: the properties of the captured event
EventProperties(E, id) ==
    IF E[id].hasData
    THEN [principal_type |-> typeIdFromResourceId(FirstEventOf(id).principal),
          event_type |-> FirstEventOf(id).type,
          resource_type |-> typeIdFromResourceId(FirstEventOf(id).resource)]
    ELSE [principal_type |-> NoValue, event_type |-> NoValue,
          resource_type |-> NoValue]

\* lines 236-250, for a change whose id is a key of edges
EmitForEdge(change, E, n) ==
    IF change.selected
    THEN << Capture("graph_event_selected", EventProperties(E, change.id), n),
            Dispatch("SelectEdge", change.id, n) >>
    ELSE << Capture("graph_event_deselected", EventProperties(E, change.id), n),
            Dispatch("DeselectEdge", change.id, n) >>

\* lines 231-252.  edges[change.id] is undefined for an id that is no key of
\* edges, and reading .data of it (line 233) raises a TypeError before
\* anything is captured or dispatched for that change; the rest of the batch
\* is not run.
RECURSIVE onEdgesChange(_, _, _, _)
onEdgesChange(changeList, E, n, out) ==
    IF changeList = <<>> THEN [emitted |-> out, threw |-> FALSE]
    ELSE LET change == Head(changeList) IN
         IF change.type # "select"
         THEN onEdgesChange(Tail(changeList), E, n + 1, out)
         ELSE IF change.id \notin DOMAIN E
         THEN [emitted |-> out, threw |-> TRUE]
         ELSE onEdgesChange(Tail(changeList), E, n + 1,
                            out \o EmitForEdge(change, E, n))

\* lines 231-252: React Flow hands a batch of edge changes to onEdgesChange
OnEdgesChange ==
    \E changeList \in EdgeBatches :
        /\ mounted
        /\ Len(changes) + Len(edgeChanges) + Len(changeList) <= MaxChanges
        /\ LET r == onEdgesChange(changeList, edges, Len(edgeChanges) + 1, <<>>)
           IN  /\ edgeEmitted' = edgeEmitted \o r.emitted
               /\ edgeThrew' = r.threw
        /\ edgeChanges' = edgeChanges \o changeList
        /\ UNCHANGED <<gestureVars, hoverVars, canvasVars, taggingVars, nodeVars,
                       labelVars, viewportVars, tableVars>>

\* lines 216-230, among the changes of both kinds of one mount
OnNodesChangeOfSelection ==
    /\ Len(changes) + Len(edgeChanges) < MaxChanges
    /\ OnNodesChange
    /\ Len(changes') + Len(edgeChanges) <= MaxChanges

EdgeSelInit ==
    /\ edgeChanges = <<>>
    /\ edgeEmitted = <<>>
    /\ edgeThrew = FALSE

SelectionNext ==
    \/ Mount
    \/ SupplyNodes
    \/ SupplyEdges
    \/ OnNodesChangeOfSelection
    \/ OnEdgesChange

-----------------------------------------------------------------------------
(* SelectionBridge: properties *)

RECURSIVE ExpectedEdgeActions(_)
ExpectedEdgeActions(cs) ==
    IF cs = <<>> THEN <<>>
    ELSE LET c == Head(cs) IN
         (IF c.type = "select"
          THEN << <<IF c.selected THEN "SelectEdge" ELSE "DeselectEdge", c.id>> >>
          ELSE <<>>)
         \o ExpectedEdgeActions(Tail(cs))

\* The part of a log that one step added.
Added(before, after) == SubSeq(after, Len(before) + 1, Len(after))

\* C20: no batch of selection changes raises: a node or edge selection
\* change whose id is no key of the snapshot is passed over, and every other
\* selection change of the batch has its Select or Deselect action
\* dispatched.
C20_StaleIdsPassedOver ==
    [][/\ Len(changes') > Len(changes) =>
            /\ ~threw'
            /\ DispatchedActions(Added(emitted, emitted')) =
                  ExpectedActions(SelectSeq(Added(changes, changes'),
                                            LAMBDA c : c.id \in DOMAIN nodes))
       /\ Len(edgeChanges') > Len(edgeChanges) =>
            /\ ~edgeThrew'
            /\ DispatchedActions(Added(edgeEmitted, edgeEmitted')) =
                  ExpectedEdgeActions(SelectSeq(Added(edgeChanges, edgeChanges'),
                                                LAMBDA c : c.id \in DOMAIN edges))
    ]_vars

-----------------------------------------------------------------------------
(* ResourcesTable: rowSelection and onRowSelectionChange *)

\* getRowId (line 124): the node id of a resource.
RowIds == {"A", "B", "C"}

\* Lists of distinct row ids: a Set in its iteration order.
RowIdLists ==
    UNION { { q \in [1..n -> RowIds] : \A i, j \in 1..n : i # j => q[i] # q[j] } :
              n \in 0..Cardinality(RowIds) }

\* RowSelectionState: an object of id -> boolean entries, in key order.
RowSelections ==
    UNION { [1..Len(q) -> BOOLEAN] \X {q} : q \in RowIdLists }

Keys(N) == N[2]

\* newRowSelectionValue[id]: undefined for a key the object does not have
Truthy(N, id) == \E i \in 1..Len(N[2]) : N[2][i] = id /\ N[1][i]

\* lines 28-31: every selected resource id is a key with the value true
RowSelection(S) == << [i \in 1..Len(S) |-> TRUE], S >>

\* row.toggleSelected (lines 51, 193) hands over a function of the old
\* value: the row's key is removed when it was selected, added otherwise.
ToggleRow(old, id) ==
    IF Truthy(old, id)
    THEN LET keep == SelectSeq(old[2], LAMBDA k : k # id)
         IN  << [i \in 1..Len(keep) |-> TRUE], keep >>
    ELSE LET keep == SelectSeq(old[2], LAMBDA k : k # id)
         IN  << [i \in 1..(Len(keep) + 1) |-> TRUE], Append(keep, id) >>

\* line 127: an updater is a new value or a function of the old one
Updaters ==
    { [isFunction |-> FALSE, value |-> N, row |-> "A"] : N \in RowSelections }
      \cup { [isFunction |-> TRUE, value |-> <<<<>>, <<>>>>, row |-> id] : id \in RowIds }

\* lines 129-132
NewSelectedResources(N) ==
    LET idx == SelectSeq([i \in 1..Len(N[2]) |-> i], LAMBDA i : N[1][i])
    IN  [j \in 1..Len(idx) |-> N[2][idx[j]]]

\* lines 136, 139 and 148, 151: the type of the resource of the row, or
\* undefined when resources has no such row
ResourceTypeOf(R, id) ==
    IF id \in R THEN typeIdFromResourceId(ResourceIdOf(id)) ELSE NoValue

\* lines 134-144
RECURSIVE SelectLoop(_, _, _)
SelectLoop(ids, S, R) ==
    IF ids = <<>> THEN <<>>
    ELSE (IF Head(ids) \notin Range(S)
          THEN << [kind |-> "capture", name |-> "resources_table_row_selected",
                   arg |-> ResourceTypeOf(R, Head(ids))],
                  [kind |-> "dispatch", name |-> "SelectResource", arg |-> Head(ids)] >>
          ELSE <<>>)
         \o SelectLoop(Tail(ids), S, R)

\* Mutant of Unselected: only a key the new value does not have counts.
UnselectedWhenAbsent(N, id) == id \notin Range(Keys(N))

\* line 147: !newRowSelectionValue[resourceId]
Unselected(N, id) == ~Truthy(N, id)

\* lines 146-156
RECURSIVE DeselectLoop(_, _, _)
DeselectLoop(ids, N, R) ==
    IF ids = <<>> THEN <<>>
    ELSE (IF Unselected(N, Head(ids))
          THEN << [kind |-> "capture", name |-> "resources_table_row_deselected",
                   arg |-> ResourceTypeOf(R, Head(ids))],
                  [kind |-> "dispatch", name |-> "DeselectResource", arg |-> Head(ids)] >>
          ELSE <<>>)
         \o DeselectLoop(Tail(ids), N, R)

NotCalled == [called |-> FALSE, value |-> <<<<>>, <<>>>>, sent |-> <<>>]

\* lines 126-157
OnRowSelectionChange ==
    \E updater \in Updaters :
        LET N == IF updater.isFunction
                 THEN ToggleRow(RowSelection(selectedResources), updater.row)
                 ELSE updater.value
        IN  /\ tableOut' =
                  [called |-> TRUE, value |-> N,
                   sent |-> SelectLoop(NewSelectedResources(N), selectedResources, resources)
                            \o DeselectLoop(selectedResources, N, resources)]
            /\ UNCHANGED <<resources, selectedResources>>
            /\ UNCHANGED <<gestureVars, hoverVars, canvasVars, taggingVars, nodeVars,
                           labelVars, viewportVars, edgeSelVars>>

\* line 25: a render with another selectedResources (one id added at the
\* end or removed)
SupplySelectedResources ==
    \E id \in RowIds :
        /\ selectedResources' =
              IF id \in Range(selectedResources)
              THEN SelectSeq(selectedResources, LAMBDA k : k # id)
              ELSE Append(selectedResources, id)
        /\ tableOut' = NotCalled
        /\ UNCHANGED resources
        /\ UNCHANGED <<gestureVars, hoverVars, canvasVars, taggingVars, nodeVars,
                       labelVars, viewportVars, edgeSelVars>>

\* line 25: a render with another resources (one row added or removed)
SupplyResources ==
    \E id \in RowIds :
        /\ resources' = IF id \in resources THEN resources \ {id}
                        ELSE resources \cup {id}
        /\ tableOut' = NotCalled
        /\ UNCHANGED selectedResources
        /\ UNCHANGED <<gestureVars, hoverVars, canvasVars, taggingVars, nodeVars,
                       labelVars, viewportVars, edgeSelVars>>

TableInit ==
    /\ resources = {}
    /\ selectedResources = <<>>
    /\ tableOut = NotCalled

TableNext ==
    \/ OnRowSelectionChange
    \/ SupplySelectedResources
    \/ SupplyResources

-----------------------------------------------------------------------------
(* ResourcesTable: properties *)

\* The positions in what the last call sent that dispatch the action.
DispatchesOf(action) ==
    { i \in 1..Len(tableOut.sent) :
        tableOut.sent[i].kind = "dispatch" /\ tableOut.sent[i].name = action }

ArgsOf(action) == { tableOut.sent[i].arg : i \in DispatchesOf(action) }

\* The ids the new row-selection value has selected.
SelectedIn(N) == { id \in RowIds : Truthy(N, id) }

\* C22: for the selected set S and the new row-selection value N the table
\* dispatches SelectResource(id) exactly for the ids selected in N and not
\* in S, and DeselectResource(id) exactly for the ids in S not selected in
\* N, each once and nothing for the others; every SelectResource comes
\* before every DeselectResource; and S with the dispatched actions applied
\* is the set of the ids selected in N.
C22_EmitsSelectionDifference ==
    tableOut.called =>
        LET S == Range(selectedResources)
            N == SelectedIn(tableOut.value)
        IN  /\ ArgsOf("SelectResource") = N \ S
            /\ ArgsOf("DeselectResource") = S \ N
            /\ Cardinality(DispatchesOf("SelectResource")) = Cardinality(N \ S)
            /\ Cardinality(DispatchesOf("DeselectResource")) = Cardinality(S \ N)
            /\ \A i \in 1..Len(tableOut.sent) :
                  tableOut.sent[i].kind = "dispatch" =>
                      tableOut.sent[i].name \in {"SelectResource", "DeselectResource"}
            /\ \A i \in DispatchesOf("SelectResource"), j \in DispatchesOf("DeselectResource") :
                  i < j
            /\ (S \cup ArgsOf("SelectResource")) \ ArgsOf("DeselectResource") = N

\* A and B were selected; the new value has B false, C true and A true:
\* C is selected, then B deselected, and nothing is sent for A.
C22_Witness ==
    /\ tableOut.called
    /\ selectedResources = <<"A", "B">>
    /\ tableOut.value = << <<FALSE, TRUE, TRUE>>, <<"B", "C", "A">> >>
    /\ Len(tableOut.sent) = 4
    /\ tableOut.sent[2] = [kind |-> "dispatch", name |-> "SelectResource", arg |-> "C"]
    /\ tableOut.sent[4] = [kind |-> "dispatch", name |-> "DeselectResource", arg |-> "B"]

-----------------------------------------------------------------------------

Init == GestureInit /\ HoverInit /\ CanvasInit /\ TaggingInit /\ NodeInit
        /\ LabelInit /\ ViewportInit /\ EdgeSelInit
        /\ TableInit

SpecGesture == Init /\ [][GestureNext]_vars

SpecHover == Init /\ [][HoverNext]_vars

SpecCanvas == Init /\ [][CanvasNext]_vars

SpecTagging == Init /\ [][TaggingNext]_vars

SpecNode == Init /\ [][NodeNext]_vars

SpecLabel == Init /\ [][LabelNext]_vars

SpecViewport == Init /\ [][ViewportNext]_vars

SpecSelection == Init /\ [][SelectionNext]_vars

SpecTable == Init /\ [][TableNext]_vars

====
